---- MODULE Spec2Model ----
(***************************************************************************)
(* Model of the binexport command dispatcher (tools/binexport_main.cc).    *)
(*                                                                         *)
(* Strings are sequences of one-character strings, so that prefix tests    *)
(* and concatenations are computed rather than assumed.  C indices are     *)
(* kept 0-based: argv[i] of the source is Arg(args, i) here.               *)
(***************************************************************************)
EXTENDS Integers, Sequences, FiniteSets, TLC

VARIABLES
    argv,            \* RawInvocation: argv[0..argc-1], immutable
    fs,              \* filesystem: candidate path -> kind of file found there
    pc,              \* position of the dispatcher process
    usage_config,    \* process-wide usage/version configuration installed?
    command_index,   \* BinExportMain::command_index (-1 before it is computed)
    parsed,          \* tokens handed to absl::ParseCommandLine (<<>> if not run)
    module_filename, \* result of GetModuleFilename() inside ValidateCommand
    command_exe,     \* BinExportMain::command_exe (<<>> while absent)
    command_args,    \* argument vector given to SpawnProcessAndWait
    child,           \* state of the child process
    status,          \* absl::Status returned by BinExportMain
    out,             \* lines the dispatcher wrote to stdout
    err,             \* lines the dispatcher wrote to stderr
    exit_code,       \* exit code of the dispatcher process (-1 while running)
    visited,         \* stages executed so far, in order
    link_target,     \* the path /proc/self/exe points to
    path_size,       \* GetModuleFilename::path.size()
    readlink_calls   \* sizes of the buffers given to readlink so far, in order

vars == <<argv, fs, pc, usage_config, command_index, parsed, module_filename,
          command_exe, command_args, child, status, out, err, exit_code,
          visited, link_target, path_size, readlink_calls>>

\* the variables of the path buffer loop of GetModuleFilename
resolver_vars == <<link_target, path_size, readlink_calls>>

----------------------------------------------------------------------------
(* Bounds *)

\* longest argument list after the program name in the dispatcher runs
MaxArgs == 3
\* longest path /proc/self/exe points to in the runs of the path buffer loop
MaxPathLen == 600
\* longest argument list after the program name for the scans of FindSubCommand
MaxScanArgs == 4
\* largest exit status a child terminates with
MaxChildExit == 2

----------------------------------------------------------------------------
(* Strings *)

ProgName   == <<"b","i","n","e","x","p","o","r","t">>
TokA       == <<"-","a">>
TokB       == <<"-","-","b">>
TokDash    == <<"-">>
TokHel     == <<"-","h","e","l">>
TokHelp1   == <<"-","h","e","l","p">>
TokHelp2   == <<"-","-","h","e","l","p">>
TokHelpful == <<"-","-","h","e","l","p","f","u","l","l">>
TokNop     == <<"n","o","p">>
TokFoo     == <<"f","o","o">>
TokBareHelp == <<"h","e","l","p">>
TokEmpty   == <<>>

\* absl::StartsWith(text, prefix)
StartsWith(text, prefix) ==
    /\ Len(text) >= Len(prefix)
    /\ SubSeq(text, 1, Len(prefix)) = prefix

\* argv[i] of the source
Arg(args, i) == args[i + 1]

----------------------------------------------------------------------------
(* FindSubCommand, binexport_main.cc:61-74 *)

IsHelpArg(arg) ==
    StartsWith(arg, <<"-","h","e","l","p">>)
        \/ StartsWith(arg, <<"-","-","h","e","l","p">>)

IsBareArg(arg) == ~StartsWith(arg, <<"-">>)

RECURSIVE FindSubCommandLoop(_, _, _, _)
FindSubCommandLoop(argc, args, i, arg_stop) ==
    IF ~(i < argc) THEN arg_stop
    ELSE IF IsHelpArg(Arg(args, i)) THEN arg_stop                  \* break
    ELSE IF arg_stop = argc /\ IsBareArg(Arg(args, i)) THEN i      \* arg_stop = i; break
    ELSE FindSubCommandLoop(argc, args, i + 1, arg_stop)

\* the scan without the help-flag test of :65-67
RECURSIVE FirstBareLoop(_, _, _)
FirstBareLoop(argc, args, i) ==
    IF ~(i < argc) THEN argc
    ELSE IF IsBareArg(Arg(args, i)) THEN i
    ELSE FirstBareLoop(argc, args, i + 1)

FindSubCommand_NoHelpTest(argc, args) == FirstBareLoop(argc, args, 1)

\* the scan giving up (argc) for a help token anywhere in the list
RECURSIVE AnyHelpLoop(_, _, _)
AnyHelpLoop(argc, args, i) ==
    IF ~(i < argc) THEN FALSE
    ELSE IsHelpArg(Arg(args, i)) \/ AnyHelpLoop(argc, args, i + 1)

FindSubCommand_HelpAnywhere(argc, args) ==
    IF AnyHelpLoop(argc, args, 1) THEN argc ELSE FirstBareLoop(argc, args, 1)

\* the scan started at the program name (i = 0) instead of i = 1
FindSubCommand_FromZero(argc, args) == FindSubCommandLoop(argc, args, 0, argc)

\* the scan with arg_stop initialised one short of argc
FindSubCommand_StopInit(argc, args) == FindSubCommandLoop(argc, args, 1, argc - 1)

FindSubCommand(argc, args) == FindSubCommandLoop(argc, args, 1, argc)

----------------------------------------------------------------------------
(* Paths and the filesystem *)

kBinExportToolPrefix == <<"b","i","n","e","x","p","o","r","t","-">>

\* the path /proc/self/exe points to
SelfPath == <<"/","b","i","n","/">> \o ProgName

RECURSIVE LastSlash(_, _)
LastSlash(path, i) ==
    IF i = 0 THEN 0
    ELSE IF path[i] = "/" THEN i
    ELSE LastSlash(path, i - 1)

\* util/filesystem: the containing directory of a path
Dirname(path) ==
    IF LastSlash(path, Len(path)) = 0 THEN <<".">>
    ELSE SubSeq(path, 1, LastSlash(path, Len(path)) - 1)

\* util/filesystem: directory and file name joined by the path separator
JoinPath(dir, name) == IF dir = <<>> THEN name ELSE dir \o <<"/">> \o name

\* absl::StrCat of two strings
StrCat(a, b) == a \o b

CommandNames == {TokNop, TokFoo}
LookupDirs   == {Dirname(SelfPath), Dirname(<<>>)}
Files        == {JoinPath(d, StrCat(kBinExportToolPrefix, n)) :
                     d \in LookupDirs, n \in CommandNames}
FileKinds    == {"absent", "executable", "not_executable"}

KindOf(files, path) == IF path \in DOMAIN files THEN files[path] ELSE "absent"

\* util/filesystem: the path names a regular, executable file
FileExists(files, path) == KindOf(files, path) = "executable"

----------------------------------------------------------------------------
(* Status values *)

OkStatus == [code |-> "Ok", text |-> "", arg |-> <<>>]

InvalidArgumentError(text) == [code |-> "InvalidArgument", text |-> text, arg |-> <<>>]

\* absl::NotFoundError(absl::StrCat("'", command, text))
NotFoundError(command, text) == [code |-> "NotFound", text |-> text, arg |-> command]

UnknownError(text) == [code |-> "Unknown", text |-> text, arg |-> <<>>]

IsOk(st) == st.code = "Ok"

----------------------------------------------------------------------------
(* GetModuleFilename, binexport_main.cc:106-120 *)

\* <limits.h>: initial size of the path buffer, "Start small"
NAME_MAX == 255

\* readlink(2): the number of bytes placed in a buffer of the given size; a
\* target longer than the buffer is truncated silently
Readlink(target, size) == IF Len(target) < size THEN Len(target) ELSE size

\* the exit test written as len <= path.size()
BufferLargeEnough_OrEqual(len, size) == len <= size

\* if (len < path.size())
BufferLargeEnough(len, size) == len < size

\* path.resize(3 * path.size() / 2)
GrownSize(size) == (3 * size) \div 2

\* the while (true) loop of :107-118 with a path buffer of the given size
RECURSIVE GetModuleFilenameLoop(_, _, _)
GetModuleFilenameLoop(target, size, readlink_fails) ==
    IF readlink_fails                                       \* len < 0
    THEN [ok |-> FALSE, value |-> <<>>,
          status |-> UnknownError("Failed to get module path: ")]
    ELSE IF BufferLargeEnough(Readlink(target, size), size) \* path.resize(len); break
    THEN [ok |-> TRUE, value |-> SubSeq(target, 1, Readlink(target, size)),
          status |-> OkStatus]
    ELSE GetModuleFilenameLoop(target, GrownSize(size), readlink_fails)

GetModuleFilename(readlink_fails) ==
    GetModuleFilenameLoop(SelfPath, NAME_MAX, readlink_fails)

\* StatusOr<T>::value_or
ValueOr(statusor, default) == IF statusor.ok THEN statusor.value ELSE default

----------------------------------------------------------------------------
(* ValidateCommand, binexport_main.cc:125-134 *)

LookupDir(module) == Dirname(ValueOr(module, <<>>))

CandidatePath(module, command) ==
    JoinPath(LookupDir(module), StrCat(kBinExportToolPrefix, command))

ValidateCommand(command, module, files) ==
    IF FileExists(files, CandidatePath(module, command))
    THEN [ok |-> TRUE, value |-> CandidatePath(module, command), status |-> OkStatus]
    ELSE [ok |-> FALSE, value |-> <<>>,
          status |-> NotFoundError(command,
              "' is not a binexport command. See 'binexport --help'.")]

----------------------------------------------------------------------------
(* SpawnProcessAndWait, util/process *)

SpawnError(text) == [code |-> "SpawnError", text |-> text, arg |-> <<>>]

NoChild == [state |-> "none", exit_status |-> -1]

\* the executable can be started
CanSpawn(files, args) == Len(args) > 0 /\ KindOf(files, args[1]) = "executable"

\* StatusOr<int> the launcher returns for a terminated (or never started) child
SpawnProcessAndWait(ch) ==
    IF ch.state = "exited"
    THEN [ok |-> TRUE, value |-> ch.exit_status, status |-> OkStatus]
    ELSE IF ch.state = "signaled"
    THEN [ok |-> FALSE, value |-> -1, status |-> SpawnError("Process terminated abnormally")]
    ELSE [ok |-> FALSE, value |-> -1, status |-> SpawnError("Cannot start process")]

----------------------------------------------------------------------------
(* BinExportMain, binexport_main.cc:136-160, and main, :165-172 *)

EXIT_SUCCESS == 0
EXIT_FAILURE == 1

Argc == Len(argv)

\* the test written as command_index > argc
NoCommandGiven_Greater(index, argc) == index > argc

\* if (command_index == argc)
NoCommandGiven(index, argc) == index = argc

\* the tail copied from i = command_index instead of command_index + 1
CommandArgs_FromCommand(exe, args, index) == <<exe>> \o SubSeq(args, index + 1, Len(args))

\* command_args: {command_exe} followed by argv[command_index + 1 .. argc - 1]
CommandArgs(exe, args, index) == <<exe>> \o SubSeq(args, index + 2, Len(args))

\* the launcher's result dropped: SpawnProcessAndWait(command_args); return OkStatus()
SpawnStatus_Ignored(result) == OkStatus

\* NA_RETURN_IF_ERROR(SpawnProcessAndWait(command_args).status()); return OkStatus()
SpawnStatus(result) == IF IsOk(result.status) THEN OkStatus ELSE result.status

\* absl::PrintF("found command: %s\n", command_exe)
FoundCommandLine(exe) == [fmt |-> "found command: %s\n", arg |-> exe]

\* absl::FPrintF(stderr, "ERROR: %s\n", status.message())
ErrorLine(st) == [fmt |-> "ERROR: %s\n", arg |-> [text |-> st.text, arg |-> st.arg]]

\* main returning EXIT_SUCCESS on both branches
ExitCode_AlwaysSuccess(st) == EXIT_SUCCESS

\* the exit code main returns for the status of BinExportMain
ExitCode(st) == IF ~IsOk(st) THEN EXIT_FAILURE ELSE EXIT_SUCCESS

Terminal == {"Success", "Failed", "ParserExit"}

\* :137-139 usage message and usage callbacks
Start ==
    /\ pc = "Start"
    /\ usage_config' = TRUE
    /\ pc' = "Splitting"
    /\ visited' = Append(visited, "Start")
    /\ UNCHANGED resolver_vars
    /\ UNCHANGED <<argv, fs, command_index, parsed, module_filename, command_exe,
                   command_args, child, status, out, err, exit_code>>

\* :141-144 FindSubCommand and the check for a missing command
Split ==
    /\ pc = "Splitting"
    /\ command_index' = FindSubCommand(Argc, argv)
    /\ IF NoCommandGiven(command_index', Argc)
       THEN /\ status' = InvalidArgumentError("No command given. Try '--help'.")
            /\ pc' = "Returned"
       ELSE /\ status' = status
            /\ pc' = "FlagParsing"
    /\ visited' = Append(visited, "Splitting")
    /\ UNCHANGED resolver_vars
    /\ UNCHANGED <<argv, fs, usage_config, parsed, module_filename, command_exe,
                   command_args, child, out, err, exit_code>>

\* absl::ParseCommandLine(argc, argv): the whole argument list given to the parser
FlagParse_WholeArgv ==
    /\ pc = "FlagParsing"
    /\ parsed' = argv
    /\ visited' = Append(visited, "FlagParsing")
    /\ \/ /\ pc' = "Resolving"
          /\ exit_code' = exit_code
       \/ /\ command_index > 1
          /\ pc' = "ParserExit"
          /\ exit_code' \in {EXIT_SUCCESS, EXIT_FAILURE}
    /\ UNCHANGED resolver_vars
    /\ UNCHANGED <<argv, fs, usage_config, command_index, module_filename,
                   command_exe, command_args, child, status, out, err>>

\* :146-147 absl::ParseCommandLine(command_index, argv); the parser returns, or
\* ends the process itself when it is given flags
FlagParse ==
    /\ pc = "FlagParsing"
    /\ parsed' = SubSeq(argv, 1, command_index)
    /\ visited' = Append(visited, "FlagParsing")
    /\ \/ /\ pc' = "Resolving"
          /\ exit_code' = exit_code
       \/ /\ command_index > 1
          /\ pc' = "ParserExit"
          /\ exit_code' \in {EXIT_SUCCESS, EXIT_FAILURE}
    /\ UNCHANGED resolver_vars
    /\ UNCHANGED <<argv, fs, usage_config, command_index, module_filename,
                   command_exe, command_args, child, status, out, err>>

\* :126 GetModuleFilename() called by ValidateCommand
Resolve ==
    /\ pc = "Resolving"
    /\ \E readlink_fails \in BOOLEAN :
           module_filename' = GetModuleFilename(readlink_fails)
    /\ pc' = "Validating"
    /\ visited' = Append(visited, "Resolving")
    /\ UNCHANGED resolver_vars
    /\ UNCHANGED <<argv, fs, usage_config, command_index, parsed, command_exe,
                   command_args, child, status, out, err, exit_code>>

\* a failed validation retried from path resolution instead of returned
Validate_Retry ==
    /\ pc = "Validating"
    /\ LET r == ValidateCommand(Arg(argv, command_index), module_filename, fs)
       IN  IF r.ok
           THEN /\ command_exe' = r.value
                /\ out' = Append(out, FoundCommandLine(r.value))
                /\ status' = status
                /\ pc' = "Spawning"
           ELSE /\ command_exe' = command_exe
                /\ out' = out
                /\ status' = status
                /\ pc' = "Resolving"
    /\ visited' = Append(visited, "Validating")
    /\ UNCHANGED resolver_vars
    /\ UNCHANGED <<argv, fs, usage_config, command_index, parsed, module_filename,
                   command_args, child, err, exit_code>>

\* :127-133 rest of ValidateCommand, :149-151 NA_ASSIGN_OR_RETURN and PrintF
Validate ==
    /\ pc = "Validating"
    /\ LET r == ValidateCommand(Arg(argv, command_index), module_filename, fs)
       IN  IF r.ok
           THEN /\ command_exe' = r.value
                /\ out' = Append(out, FoundCommandLine(r.value))
                /\ status' = status
                /\ pc' = "Spawning"
           ELSE /\ command_exe' = command_exe
                /\ out' = out
                /\ status' = r.status
                /\ pc' = "Returned"
    /\ visited' = Append(visited, "Validating")
    /\ UNCHANGED resolver_vars
    /\ UNCHANGED <<argv, fs, usage_config, command_index, parsed, module_filename,
                   command_args, child, err, exit_code>>

\* :153-158 build command_args and start the child
Spawn ==
    /\ pc = "Spawning"
    /\ command_args' = CommandArgs(command_exe, argv, command_index)
    /\ IF CanSpawn(fs, command_args')
       THEN /\ child' = [state |-> "running", exit_status |-> -1]
            /\ status' = status
            /\ pc' = "Waiting"
       ELSE /\ child' = [state |-> "failed", exit_status |-> -1]
            /\ status' = SpawnStatus(SpawnProcessAndWait(child'))
            /\ pc' = "Returned"
    /\ visited' = Append(visited, "Spawning")
    /\ UNCHANGED resolver_vars
    /\ UNCHANGED <<argv, fs, usage_config, command_index, parsed, module_filename,
                   command_exe, out, err, exit_code>>

\* :158-159 the child terminates and SpawnProcessAndWait returns
Wait ==
    /\ pc = "Waiting"
    /\ \/ \E s \in 0..MaxChildExit : child' = [state |-> "exited", exit_status |-> s]
       \/ child' = [state |-> "signaled", exit_status |-> -1]
    /\ status' = SpawnStatus(SpawnProcessAndWait(child'))
    /\ pc' = "Returned"
    /\ UNCHANGED resolver_vars
    /\ UNCHANGED <<argv, fs, usage_config, command_index, parsed, module_filename,
                   command_exe, command_args, out, err, exit_code, visited>>

\* main, :165-172
MainExit ==
    /\ pc = "Returned"
    /\ IF ~IsOk(status)
       THEN /\ err' = Append(err, ErrorLine(status))
            /\ pc' = "Failed"
       ELSE /\ err' = err
            /\ pc' = "Success"
    /\ exit_code' = ExitCode(status)
    /\ UNCHANGED resolver_vars
    /\ UNCHANGED <<argv, fs, usage_config, command_index, parsed, module_filename,
                   command_exe, command_args, child, status, out, visited>>

\* another process creates, removes or changes the mode of a file
FsChange ==
    /\ pc \notin Terminal
    /\ \E f \in Files, k \in FileKinds :
           /\ fs[f] # k
           /\ fs' = [fs EXCEPT ![f] = k]
    /\ UNCHANGED resolver_vars
    /\ UNCHANGED <<argv, pc, usage_config, command_index, parsed, module_filename,
                   command_exe, command_args, child, status, out, err, exit_code,
                   visited>>

----------------------------------------------------------------------------
(* Specification of a dispatcher run *)

Tokens == {TokA, TokHelp1, TokHelp2, TokNop, TokFoo}

RECURSIVE SeqsUpTo(_, _)
SeqsUpTo(S, n) ==
    IF n = 0 THEN {<<>>}
    ELSE LET shorter == SeqsUpTo(S, n - 1)
         IN  shorter \cup {Append(t, x) : t \in shorter, x \in S}

NoModule == [ok |-> FALSE, value |-> <<>>, status |-> OkStatus]

InitRun ==
    /\ pc = "Start"
    /\ usage_config = FALSE
    /\ command_index = -1
    /\ parsed = <<>>
    /\ module_filename = NoModule
    /\ command_exe = <<>>
    /\ command_args = <<>>
    /\ child = NoChild
    /\ status = OkStatus
    /\ out = <<>>
    /\ err = <<>>
    /\ exit_code = -1
    /\ visited = <<>>
    /\ link_target = SelfPath
    /\ path_size = NAME_MAX
    /\ readlink_calls = <<>>

Init ==
    /\ argv \in {<<ProgName>> \o t : t \in SeqsUpTo(Tokens, MaxArgs)}
    /\ fs \in [Files -> FileKinds]
    /\ InitRun

Next ==
    \/ Start
    \/ Split
    \/ FlagParse
    \/ Resolve
    \/ Validate
    \/ Spawn
    \/ Wait
    \/ MainExit
    \/ FsChange

Spec == Init /\ [][Next]_vars

----------------------------------------------------------------------------
(* Specification of the scans of FindSubCommand over raw argument lists *)

ScanTokens == {TokA, TokB, TokDash, TokHel, TokHelp1, TokHelp2, TokHelpful,
               TokNop, TokFoo, TokBareHelp, TokEmpty}

InitScan ==
    /\ argv \in {<<ProgName>> \o t : t \in SeqsUpTo(ScanTokens, MaxScanArgs)}
    /\ fs = [f \in Files |-> "absent"]
    /\ usage_config = FALSE
    /\ command_index = -1
    /\ parsed = <<>>
    /\ module_filename = NoModule
    /\ command_exe = <<>>
    /\ command_args = <<>>
    /\ child = NoChild
    /\ status = OkStatus
    /\ out = <<>>
    /\ err = <<>>
    /\ exit_code = -1
    /\ visited = <<>>
    /\ link_target = SelfPath
    /\ path_size = NAME_MAX
    /\ readlink_calls = <<>>
    /\ pc = "Scan"

\* :141 int command_index = FindSubCommand(argc, argv)
Scan ==
    /\ pc = "Scan"
    /\ command_index' = FindSubCommand(Argc, argv)
    /\ pc' = "Scanned"
    /\ UNCHANGED resolver_vars
    /\ UNCHANGED <<argv, fs, usage_config, parsed, module_filename, command_exe,
                   command_args, child, status, out, err, exit_code, visited>>

NextScan == Scan

SpecScan == InitScan /\ [][NextScan]_vars

----------------------------------------------------------------------------
(* Vocabulary of the properties *)

\* indices 1 .. argc-1 of the tokens after the program name
ArgIndices == 1..(Argc - 1)

BeginsWithDash(tok) == Len(tok) >= 1 /\ tok[1] = "-"

BeginsWithHelp(tok) ==
    \/ Len(tok) >= 5 /\ \A k \in 1..5 : tok[k] = TokHelp1[k]
    \/ Len(tok) >= 6 /\ \A k \in 1..6 : tok[k] = TokHelp2[k]

BareIndices == {i \in ArgIndices : ~BeginsWithDash(Arg(argv, i))}
HelpIndices == {i \in ArgIndices : BeginsWithHelp(Arg(argv, i))}

Least(S) == CHOOSE i \in S : \A j \in S : i <= j

\* index of the first bare token, or argc
FirstBare == IF BareIndices = {} THEN Argc ELSE Least(BareIndices)
\* index of the first help token, or argc
FirstHelp == IF HelpIndices = {} THEN Argc ELSE Least(HelpIndices)

HelpBeforeBare == FirstHelp < FirstBare

Ran(stage) == \E k \in DOMAIN visited : visited[k] = stage

\* the executable of the subcommand next to the dispatcher binary
SiblingPath(name) == Dirname(SelfPath) \o <<"/">> \o kBinExportToolPrefix \o name

----------------------------------------------------------------------------
(* Properties of FindSubCommand, checked under SpecScan *)

C9_FlagsThenCommand ==
    (/\ pc = "Scanned"
     /\ FirstBare < Argc
     /\ FirstBare > 1
     /\ FirstHelp > FirstBare) => command_index = FirstBare

\* C9 witness: [prog, -a, --b, nop, -a] has been scanned and gave the index of nop.
C9_Witness ==
    /\ pc = "Scanned"
    /\ argv = <<ProgName, TokA, TokB, TokNop, TokA>>
    /\ command_index = 3

\* C10: when no token after the program name is bare, FindSubCommand returns
\* the length of the argument list.
C10_NoBareGivesArgc ==
    (pc = "Scanned" /\ BareIndices = {}) => command_index = Argc

\* C10 witness: a list of two non-help flags has been scanned and gave argc.
C10_Witness ==
    /\ pc = "Scanned"
    /\ argv = <<ProgName, TokA, TokDash>>
    /\ command_index = 3

----------------------------------------------------------------------------
(* Properties of a dispatcher run, checked under Spec *)

NoCommandText == "No command given. Try '--help'."

\* C1 as stated: when the child terminates normally with exit status s, the
\* dispatcher's exit code is 0 if and only if s = 0.
C1_ChildExitStatusForwarded ==
    (pc \in {"Success", "Failed"} /\ child.state = "exited") =>
        (exit_code = 0 <=> child.exit_status = 0)

\* C2 as stated: when a help token occurs before any bare token, the run does
\* not end before the flag parser has been given a prefix holding that token.
C2_HelpReachesFlagParser ==
    (HelpBeforeBare /\ pc \in {"Returned", "Success", "Failed", "ParserExit"}) =>
        \E k \in DOMAIN parsed : BeginsWithHelp(parsed[k])

\* C4 as stated: the validation step yields the path of binexport-<name> next
\* to the dispatcher binary exactly when that path is an executable file, and
\* fails with NotFoundError, yielding no path, in every other case.
C4_ValidateIffSiblingExecutable ==
    [][(pc = "Validating" /\ pc' # "Validating") =>
         LET sibling == SiblingPath(Arg(argv, command_index))
         IN  IF KindOf(fs, sibling) = "executable"
             THEN command_exe' = sibling /\ pc' = "Spawning"
             ELSE /\ command_exe' = <<>>
                  /\ pc' = "Returned"
                  /\ status'.code = "NotFound"]_vars

\* C5 as stated: when resolving the dispatcher's own path has failed, neither
\* validation nor spawning is performed and the run fails with the resolution
\* error on its ERROR line.
C5_ResolutionFailureShortCircuits ==
    (Ran("Resolving") /\ ~module_filename.ok) =>
        /\ ~Ran("Validating")
        /\ ~Ran("Spawning")
        /\ child = NoChild
        /\ pc \in {"Returned", "Failed"} => status = module_filename.status
        /\ pc = "Failed" => err = <<ErrorLine(module_filename.status)>>

\* C6: when FindSubCommand returns argc the run fails with InvalidArgumentError:
\* non-zero exit code, "No command given" on the ERROR line, and the flag parser,
\* path resolution, validation and spawning never run.
C6_NoCommandFails ==
    (command_index = Argc) =>
        /\ pc \in {"Returned", "Failed"}
        /\ status = InvalidArgumentError(NoCommandText)
        /\ parsed = <<>>
        /\ ~Ran("FlagParsing") /\ ~Ran("Resolving")
        /\ ~Ran("Validating") /\ ~Ran("Spawning")
        /\ module_filename = NoModule
        /\ command_exe = <<>>
        /\ command_args = <<>>
        /\ child = NoChild
        /\ pc = "Returned" => (ENABLED MainExit /\ exit_code = -1)
        /\ pc = "Failed" =>
              /\ exit_code # 0
              /\ \E k \in DOMAIN err :
                     err[k].fmt = "ERROR: %s\n" /\ err[k].arg.text = NoCommandText

\* C6 witness: the run of [prog] has failed with exit code EXIT_FAILURE.
C6_Witness ==
    /\ argv = <<ProgName>>
    /\ pc = "Failed"
    /\ exit_code = EXIT_FAILURE
    /\ Len(err) = 1

\* C7 as stated: a validation step for a name with no executable next to the
\* dispatcher fails with NotFoundError naming it, and a child is started only
\* with the validated path of the executable next to the dispatcher.
C7_UnknownCommandNeverSpawns ==
    [][/\ (/\ pc = "Validating" /\ pc' # "Validating"
           /\ KindOf(fs, SiblingPath(Arg(argv, command_index))) # "executable") =>
              /\ pc' = "Returned"
              /\ status'.code = "NotFound"
              /\ status'.arg = Arg(argv, command_index)
              /\ command_exe' = <<>>
       /\ (child.state = "none" /\ child'.state # "none") =>
              /\ Ran("Validating")
              /\ command_exe = SiblingPath(Arg(argv, command_index))
              /\ command_args'[1] = command_exe]_vars

\* C8 as stated: a run that ends in a dispatcher failure has written exactly
\* one ERROR line, has a non-zero exit code, and has written nothing else.
C8_OnlyErrorLine ==
    pc = "Failed" =>
        /\ err = <<ErrorLine(status)>>
        /\ exit_code # 0
        /\ out = <<>>

\* C8 amended: a run that ends in a dispatcher failure has written exactly one
\* ERROR line to stderr, after nothing else on stderr, and has a non-zero exit
\* code; its stdout is empty when the failure is InvalidArgumentError or
\* NotFoundError, and holds exactly the line "found command: <path>" when the
\* failure is a SpawnError.
C8_OneErrorLineAfterFoundCommand ==
    /\ pc # "Failed" => err = <<>>
    /\ pc = "Failed" =>
          /\ ~IsOk(status)
          /\ err = <<ErrorLine(status)>>
          /\ exit_code # 0
          /\ status.code \in {"InvalidArgument", "NotFound"} => out = <<>>
          /\ status.code = "SpawnError" =>
                 /\ command_exe # <<>>
                 /\ out = <<FoundCommandLine(command_exe)>>
          /\ status.code \in {"InvalidArgument", "NotFound", "SpawnError"}

\* C8 witness: a run has failed with a SpawnError after printing "found command".
C8_Witness ==
    /\ pc = "Failed"
    /\ status.code = "SpawnError"
    /\ child.state = "failed"
    /\ Len(out) = 1
    /\ Len(err) = 1
    /\ exit_code = EXIT_FAILURE

----------------------------------------------------------------------------
(* Properties of the child's argument vector, checked under Spec *)

\* C11: the arguments given to the launcher are the resolved path followed by
\* the raw tokens at indices command_index+1 .. argc-1 in their order: the path
\* is element zero, the length is argc - command_index, and the subcommand
\* token itself is not forwarded.
C11_ChildArgumentsArePathThenTail ==
    Ran("Spawning") =>
        /\ command_index < Argc
        /\ Len(command_args) = Argc - command_index
        /\ command_args[1] = command_exe
        /\ command_exe # <<>>
        /\ \A j \in 1..(Argc - command_index - 1) :
               command_args[j + 1] = Arg(argv, command_index + j)

\* C11 witness: [prog, -a, nop, foo] has been spawned with <path, foo>.
C11_Witness ==
    /\ Ran("Spawning")
    /\ argv = <<ProgName, TokA, TokNop, TokFoo>>
    /\ command_args = <<SiblingPath(TokNop), TokFoo>>

----------------------------------------------------------------------------
(* Properties of the order of the stages, checked under Spec *)

StageOrder ==
    <<"Start", "Splitting", "FlagParsing", "Resolving", "Validating", "Spawning">>

IsPrefix(a, b) == Len(a) <= Len(b) /\ SubSeq(b, 1, Len(a)) = a

\* a step of the dispatcher process itself
DispatcherStep ==
    Start \/ Split \/ FlagParse \/ Resolve \/ Validate \/ Spawn \/ Wait \/ MainExit

\* the stage the dispatcher is about to execute has not been executed before
AtFreshStage ==
    \A k \in DOMAIN StageOrder :
        pc = StageOrder[k] => visited = SubSeq(StageOrder, 1, k - 1)

ForwardOnly(ends) ==
    /\ IsPrefix(visited, StageOrder)
    /\ AtFreshStage
    /\ pc \in ends => ~ENABLED DispatcherStep
    /\ pc \notin ends => ENABLED DispatcherStep
    /\ pc \in {"Waiting", "Success"} => visited = StageOrder
    /\ pc = "Failed" => exit_code # 0

\* C13 as stated: the stages run in the order Start, Splitting, FlagParsing,
\* Resolving, Validating, Spawning, none twice and none after Failed, and the
\* run can end only in Success or Failed.
C13_ForwardOnlyToSuccessOrFailed == ForwardOnly({"Success", "Failed"})

\* C13 amended: the stages run in that order, none twice and none after
\* Failed, and the run can end only in Success, in Failed, or inside
\* FlagParsing when the flag parser, given at least one flag, terminates the
\* process itself.
C13_ForwardOnlyOrParserExit ==
    /\ ForwardOnly({"Success", "Failed", "ParserExit"})
    /\ pc = "ParserExit" =>
          /\ visited = SubSeq(StageOrder, 1, 3)
          /\ Len(parsed) > 1
          /\ module_filename = NoModule /\ command_exe = <<>> /\ child = NoChild

\* C13 witness: a run has gone through all six stages and ended in Success.
C13_Witness ==
    /\ pc = "Success"
    /\ visited = StageOrder
    /\ child.state = "exited"

----------------------------------------------------------------------------
(* Properties of what the flag parser is given, checked under Spec *)

\* C14: the split point is computed from the raw tokens before the flag parser
\* runs, and the parser is given the prefix [0, command_index) only: never the
\* subcommand token or a token after it, also when such a token begins with a
\* dash.
C14_ParserGivenPrefixOnly ==
    /\ Ran("FlagParsing") =>
          /\ \E i, j \in DOMAIN visited :
                 i < j /\ visited[i] = "Splitting" /\ visited[j] = "FlagParsing"
          /\ command_index = FirstBare
          /\ command_index < Argc
          /\ Len(parsed) = command_index
          /\ \A k \in 1..Len(parsed) : parsed[k] = Arg(argv, k - 1)
          /\ \A k \in 2..Len(parsed) : BeginsWithDash(parsed[k])
    /\ ~Ran("FlagParsing") => parsed = <<>>
    /\ pc = "FlagParsing" => (command_index = FirstBare /\ Ran("Splitting"))

\* C14 witness: for [prog, -a, nop, --help] the parser was given [prog, -a].
C14_Witness ==
    /\ argv = <<ProgName, TokA, TokNop, TokHelp2>>
    /\ parsed = <<ProgName, TokA>>
    /\ pc = "Resolving"

----------------------------------------------------------------------------
(* Specification of the path buffer loop of GetModuleFilename, :106-120 *)

PathOfLength(n) == [k \in 1..n |-> "x"]

InitResolve ==
    /\ link_target \in {PathOfLength(n) : n \in 1..MaxPathLen}
    /\ path_size = NAME_MAX
    /\ readlink_calls = <<>>
    /\ module_filename = NoModule
    /\ pc = "Readlink"
    /\ argv = <<ProgName>>
    /\ fs = [f \in Files |-> "absent"]
    /\ usage_config = FALSE
    /\ command_index = -1
    /\ parsed = <<>>
    /\ command_exe = <<>>
    /\ command_args = <<>>
    /\ child = NoChild
    /\ status = OkStatus
    /\ out = <<>>
    /\ err = <<>>
    /\ exit_code = -1
    /\ visited = <<>>

\* :108-117 one pass of the while (true) loop
ReadlinkStep ==
    /\ pc = "Readlink"
    /\ readlink_calls' = Append(readlink_calls, path_size)
    /\ \/ /\ module_filename' =
                [ok |-> FALSE, value |-> <<>>,
                 status |-> UnknownError("Failed to get module path: ")]
          /\ path_size' = path_size
          /\ pc' = "ResolveFailed"
       \/ IF BufferLargeEnough(Readlink(link_target, path_size), path_size)
          THEN /\ path_size' = Readlink(link_target, path_size)
               /\ module_filename' =
                     [ok |-> TRUE, value |-> SubSeq(link_target, 1, path_size'),
                      status |-> OkStatus]
               /\ pc' = "Resolved"
          ELSE /\ path_size' = GrownSize(path_size)
               /\ module_filename' = module_filename
               /\ pc' = "Readlink"
    /\ UNCHANGED <<argv, fs, usage_config, command_index, parsed, command_exe,
                   command_args, child, status, out, err, exit_code, visited,
                   link_target>>

NextResolve == ReadlinkStep

\* the loop is straight-line code of the one thread: it keeps running
SpecResolve == InitResolve /\ [][NextResolve]_vars /\ WF_vars(ReadlinkStep)

----------------------------------------------------------------------------
(* Properties of the path buffer loop, checked under SpecResolve *)

\* the buffers given to readlink start at NAME_MAX and each next one is 3/2
\* of the one before, strictly larger
BuffersGrow ==
    /\ readlink_calls # <<>> => readlink_calls[1] = NAME_MAX
    /\ \A k \in 1..(Len(readlink_calls) - 1) :
           /\ readlink_calls[k + 1] = (3 * readlink_calls[k]) \div 2
           /\ readlink_calls[k + 1] > readlink_calls[k]

\* the loop has exited at the first buffer strictly longer than the path, with
\* the whole path
ExitedAtFirstFit ==
    pc = "Resolved" =>
        /\ readlink_calls # <<>>
        /\ \A k \in 1..Len(readlink_calls) :
               (Len(link_target) < readlink_calls[k]) <=> (k = Len(readlink_calls))
        /\ module_filename.ok
        /\ Len(module_filename.value) = Len(link_target)
        /\ module_filename.value = link_target
        /\ path_size = Len(link_target)
        /\ module_filename = GetModuleFilenameLoop(link_target, NAME_MAX, FALSE)

\* C15: for every path length, while readlink reports no error, the loop
\* terminates: the buffer starts at NAME_MAX and grows by 3/2 on each retry,
\* the loop exits at the first attempt whose returned length is strictly less
\* than the buffer size, and the returned path has the full length.
C15_BufferLoopTerminatesWithFullPath ==
    /\ [](BuffersGrow /\ ExitedAtFirstFit)
    /\ <>(pc \in {"Resolved", "ResolveFailed"})
    /\ [](pc = "ResolveFailed" => ~module_filename.ok)

\* C15 witness: a path of 600 bytes was returned whole at the fourth attempt.
C15_Witness ==
    /\ pc = "Resolved"
    /\ Len(link_target) = 600
    /\ readlink_calls = <<255, 382, 573, 859>>
    /\ Len(module_filename.value) = 600

----------------------------------------------------------------------------
(* Properties of spawning under a changing filesystem, checked under Spec *)

\* C16: when the validated executable has been removed or made unstartable
\* before the spawn step, or the child is killed by a signal, the run ends in
\* Failed with the SpawnError reported and a non-zero exit code; the run never
\* reaches Success without a child that was started and terminated normally.
SpawnOutcomeReported ==
    /\ (Ran("Spawning") /\ child.state \in {"failed", "signaled"}) =>
          /\ pc \in {"Returned", "Failed"}
          /\ status = SpawnProcessAndWait(child).status
          /\ status.code = "SpawnError"
          /\ pc = "Returned" => ENABLED MainExit
          /\ pc = "Failed" =>
                /\ exit_code # 0
                /\ err = <<ErrorLine(status)>>
    /\ pc = "Spawning" => (child = NoChild /\ command_exe # <<>>)
    /\ pc = "Waiting" => child.state = "running"
    /\ pc = "Success" => (child.state = "exited" /\ exit_code = 0)
    /\ child.state # "none" => Ran("Spawning")

C16_SpawnFailureIsReported ==
    /\ []SpawnOutcomeReported
    /\ [][(/\ pc = "Spawning" /\ pc' # "Spawning"
           /\ KindOf(fs, command_exe) # "executable") =>
              /\ child'.state = "failed"
              /\ status'.code = "SpawnError"
              /\ pc' = "Returned"]_vars
    /\ [][(pc = "Waiting" /\ child'.state = "signaled") =>
              (status'.code = "SpawnError" /\ pc' = "Returned")]_vars

\* C16 witness: an executable that passed validation could not be started and
\* the run has failed with the SpawnError.
C16_Witness ==
    /\ pc = "Failed"
    /\ Ran("Validating")
    /\ command_exe # <<>>
    /\ child.state = "failed"
    /\ KindOf(fs, command_exe) = "absent"
    /\ status.code = "SpawnError"
    /\ exit_code = EXIT_FAILURE

----------------------------------------------------------------------------
(* Further properties of FindSubCommand *)

\* C17 (under SpecScan): the first bare token stops the scan whatever follows
\* it: when the first bare token is at index i and no help token precedes it,
\* FindSubCommand returns i, also when a help token follows ([prog, cmd, --help]
\* gives 1).
C17_FirstBareStopsScan ==
    (pc = "Scanned" /\ BareIndices # {} /\ ~HelpBeforeBare) =>
        /\ command_index = FirstBare
        /\ command_index =
               FindSubCommand(FirstBare + 1, SubSeq(argv, 1, FirstBare + 1))

\* C17 witness: [prog, nop, --help] has been scanned and gave 1.
C17_Witness ==
    /\ pc = "Scanned"
    /\ argv = <<ProgName, TokNop, TokHelp2>>
    /\ command_index = 1

\* C18 (under Spec): the index r returned by FindSubCommand satisfies
\* 1 <= r <= argc; when r < argc, argv[r] is bare and every token at 1 .. r-1
\* begins with a dash and is no help token; BinExportMain reads
\* argv[command_index] only with command_index < argc and gives the flag
\* parser a prefix that holds at least the program name.
C18_SplitPointInRange ==
    /\ command_index # -1 =>
          /\ 1 <= command_index /\ command_index <= Argc
          /\ command_index < Argc =>
                /\ ~BeginsWithDash(Arg(argv, command_index))
                /\ \A i \in 1..(command_index - 1) :
                       /\ BeginsWithDash(Arg(argv, i))
                       /\ ~BeginsWithHelp(Arg(argv, i))
    /\ pc \in {"FlagParsing", "Resolving", "Validating", "Spawning", "Waiting"} =>
          (0 <= command_index /\ command_index < Argc)
    /\ Ran("Validating") => command_index < Argc
    /\ Ran("FlagParsing") => (Len(parsed) >= 1 /\ parsed[1] = Arg(argv, 0))
    /\ Argc >= 1

\* C18 witness: [prog, -a, nop] is about to be validated with command_index 2.
C18_Witness ==
    /\ pc = "Validating"
    /\ argv = <<ProgName, TokA, TokNop>>
    /\ command_index = 2
    /\ parsed = <<ProgName, TokA>>

====
